---- MODULE Spec2Model ----
(***************************************************************************)
(* Model of the compile pipeline of src/client/client-host-ref.ts          *)
(* (compileSrcDir, scanDir, copySourceSassFilesToDest, isValidDirectory).  *)
(* Paths are sequences of one-character strings so that the substring and  *)
(* string-prefix tests of the code are computed, not assumed.              *)
(***************************************************************************)
EXTENDS Integers, Sequences, FiniteSets, TLC

\* ------------------------------------------------------------------------
\* Bounds of the model
\* ------------------------------------------------------------------------
MaxFailures == 2
MaxTranspileDiags == 1

\* ------------------------------------------------------------------------
\* Strings and paths
\* ------------------------------------------------------------------------
Sep == "/"
DotDot == <<".", ".">>

\* String.prototype.indexOf: first 0-based position of needle, or -1
IndexOf(hay, needle) ==
  LET hits == { i \in 0..(Len(hay) - Len(needle)) :
                  SubSeq(hay, i + 1, i + Len(needle)) = needle }
  IN IF hits = {} THEN -1 ELSE CHOOSE i \in hits : \A j \in hits : i <= j

\* Array.prototype.indexOf on a sequence of values
ArrayIndexOf(arr, v) ==
  LET hits == { i \in 1..Len(arr) : arr[i] = v }
  IN IF hits = {} THEN -1 ELSE (CHOOSE i \in hits : \A j \in hits : i <= j) - 1

\* util normalizePath: back slashes become forward slashes
normalizePath(str) ==
  [i \in 1..Len(str) |-> IF str[i] = "\\" THEN Sep ELSE str[i]]

RECURSIVE SplitFrom(_, _, _)
\* segments of a path: split at "/", empty segments dropped
SplitFrom(p, i, cur) ==
  IF i > Len(p) THEN (IF cur = <<>> THEN <<>> ELSE <<cur>>)
  ELSE IF p[i] = Sep
       THEN (IF cur = <<>> THEN <<>> ELSE <<cur>>) \o SplitFrom(p, i + 1, <<>>)
       ELSE SplitFrom(p, i + 1, Append(cur, p[i]))

Segments(p) == SplitFrom(p, 1, <<>>)

RECURSIVE ResolveDots(_, _)
\* path normalisation of "." and ".." segments (stack is the result so far)
ResolveDots(segs, stack) ==
  IF segs = <<>> THEN stack
  ELSE LET s == Head(segs) IN
       IF s = <<".">> THEN ResolveDots(Tail(segs), stack)
       ELSE IF s = DotDot
            THEN ResolveDots(Tail(segs),
                   IF stack # <<>> /\ stack[Len(stack)] # DotDot
                   THEN SubSeq(stack, 1, Len(stack) - 1)
                   ELSE Append(stack, s))
            ELSE ResolveDots(Tail(segs), Append(stack, s))

RECURSIVE Glue(_)
\* segments joined with "/" (no leading separator)
Glue(segs) ==
  IF segs = <<>> THEN <<>>
  ELSE IF Len(segs) = 1 THEN segs[1]
  ELSE segs[1] \o <<Sep>> \o Glue(Tail(segs))

IsAbsolute(p) == p # <<>> /\ p[1] = Sep

\* ".." above the root of an absolute path is dropped
RECURSIVE DropLeadingDotDot(_)
DropLeadingDotDot(segs) ==
  IF segs # <<>> /\ Head(segs) = DotDot THEN DropLeadingDotDot(Tail(segs)) ELSE segs

\* sys.path.join(a, b): concatenate with a separator, then normalise
PathJoin(a, b) ==
  LET joined == a \o <<Sep>> \o b
      segs   == ResolveDots(Segments(joined), <<>>)
  IN IF IsAbsolute(joined) THEN <<Sep>> \o Glue(DropLeadingDotDot(segs))
     ELSE Glue(segs)

RECURSIVE CommonLen(_, _)
CommonLen(s, t) ==
  IF s = <<>> \/ t = <<>> \/ Head(s) # Head(t) THEN 0
  ELSE 1 + CommonLen(Tail(s), Tail(t))

\* sys.path.relative(from, to) for absolute paths: segment-wise
PathRelative(from, to) ==
  LET f == ResolveDots(Segments(from), <<>>)
      t == ResolveDots(Segments(to), <<>>)
      n == CommonLen(f, t)
  IN Glue([i \in 1..(Len(f) - n) |-> DotDot] \o SubSeq(t, n + 1, Len(t)))

\* ------------------------------------------------------------------------
\* Build configuration and the source tree that the host file system serves
\* ------------------------------------------------------------------------
RootDir == <<"/", "r">>
Src == <<"/", "r", "/", "s">>
CollectionDest == <<"/", "r", "/", "d", "/", "c">>

DirU == Src \o <<"/", "u">>
DirXu == Src \o <<"/", "x", "u">>
FileA == Src \o <<"/", "a", ".", "t">>
FileB == Src \o <<"/", "b", ".", "t">>
FileC == DirU \o <<"/", "c", ".", "t">>
FileN == DirU \o <<"/", "n", ".", "c">>
FileD == DirXu \o <<"/", "d", ".", "t">>

Dirs == {Src, DirU, DirXu}
Entries == {FileA, FileB, DirU, DirXu, FileC, FileN, FileD}

\* names handed to the readdir callback for a directory
Listing(d) ==
  CASE d = Src -> << <<"a", ".", "t">>, <<"b", ".", "t">>, <<"u">>, <<"x", "u">> >>
    [] d = DirU -> << <<"c", ".", "t">>, <<"n", ".", "c">> >>
    [] d = DirXu -> << <<"d", ".", "t">> >>
    [] OTHER -> << >>

\* stats.isDirectory()
isDirectory(p) == p \in Dirs

\* util isTsSourceFile: decided by the extension
isTsSourceFile(p) == Len(p) >= 2 /\ SubSeq(p, Len(p) - 1, Len(p)) = <<".", "t">>

\* asset paths: inside the source root, in a sibling directory whose name
\* starts with the text of the source root, and directly under the root
SassIn == Src \o <<"/", "k">>
SassSibling == <<"/", "r", "/", "s", "x", "/", "k">>
SassOut == RootDir \o <<"/", "k">>
Assets == {SassIn, SassSibling, SassOut}

\* the assets a compiled unit references
SassOf(p) ==
  CASE p = FileA -> <<SassIn, SassSibling>>
    [] p = FileB -> <<SassSibling, SassOut>>
    [] p = FileD -> <<SassOut>>
    [] OTHER -> << >>

\* exclusion lists a build may be configured with
ExcludeChoices ==
  { << >>,
    << <<"x">> >>,
    << <<"/", "u">>, <<"b">> >>,
    << <<"u">> >>,
    << <<".">> >>,
    << <<"r", "/", "s">> >> }

JsPath(p) == SubSeq(p, 1, Len(p) - 1) \o <<"j">>

\* module file as returned by getModuleFile for a source path
ScannedUnit(p) ==
  [tsFilePath |-> p, jsFilePath |-> JsPath(p), jsText |-> << >>,
   includedSassFiles |-> << >>]

\* module file as returned by the batch transpile for a source path
TranspiledUnit(p) ==
  [tsFilePath |-> p, jsFilePath |-> JsPath(p), jsText |-> <<"j", "s">> \o p,
   includedSassFiles |-> SassOf(p)]

\* content delivered by readFile for an asset
SassText(a) == <<"c", "s", "s">> \o a

\* ------------------------------------------------------------------------
\* State
\* ------------------------------------------------------------------------
VARIABLES
  exclude,            \* buildConfig.exclude
  generateCollection, \* buildConfig.generateCollection
  pc,                 \* position of the promise chain of compileSrcDir
  readdirSt,          \* per directory: readdir not issued / pending / ok / err
  entrySt,            \* per entry: promise of the entry inside scanDir
  moduleFiles,        \* compileResults.moduleFiles, in key insertion order
  diagnostics,        \* compileResults.diagnostics
  manifest,           \* compileResults.manifest
  includedSassFiles,  \* compileResults.includedSassFiles
  filesToWrite,       \* ctx.filesToWrite
  readSt,             \* per asset: readFile not issued / pending / ok / err
  calls,              \* how often each collaborator call was issued
  failed,             \* the collaborator calls that failed in this run
  returnedDiags,      \* number of diagnostics the transpile returned
  returned,           \* keys of transpileResults.moduleFiles, in their order
  resolvedWith,       \* ctx.filesToWrite as it was when the returned promise resolved
  run,                \* number of the build run on this tree and configuration
  firstRun            \* result the first run resolved with

vars == <<exclude, generateCollection, pc, readdirSt, entrySt, moduleFiles,
          diagnostics, manifest, includedSassFiles, filesToWrite, readSt,
          calls, failed, returnedDiags, returned, resolvedWith, run, firstRun>>

\* what no handler of a run changes
config == <<exclude, generateCollection, run, firstRun>>

\* ------------------------------------------------------------------------
\* Helpers of the handlers
\* ------------------------------------------------------------------------
Bump(c, k) == IF k \in DOMAIN c THEN [c EXCEPT ![k] = @ + 1] ELSE c @@ (k :> 1)
Count(c, k) == IF k \in DOMAIN c THEN c[k] ELSE 0

Err(kind, path) == [kind |-> kind, path |-> path]

\* util catchError: one record for the error is pushed
catchError(diags, err) == Append(diags, err)

CanFail == Cardinality(failed) < MaxFailures

\* obj[key] = value on an insertion-ordered object
SetKey(obj, key, value) ==
  IF \E i \in 1..Len(obj) : obj[i].key = key
  THEN [i \in 1..Len(obj) |-> IF obj[i].key = key
                               THEN [key |-> key, unit |-> value] ELSE obj[i]]
  ELSE Append(obj, [key |-> key, unit |-> value])

Keys(obj) == { obj[i].key : i \in 1..Len(obj) }

Put(map, k, v) == [x \in (DOMAIN map) \cup {k} |-> IF x = k THEN v ELSE map[x]]

\* variant: the loop stops after the first pattern
isValidDirectory_firstOnly(excl, filePath) ==
  ~ \E i \in 1..Len(excl) : i = 1 /\ IndexOf(filePath, excl[i]) > -1

isValidDirectory(excl, filePath) ==
  ~ \E i \in 1..Len(excl) : IndexOf(filePath, excl[i]) > -1

\* variant: resolve() right after the listing, without the Promise.all join
scanResolved_noJoin(d, rd, es) == rd[d] \in {"err", "ok"}

\* variant: the entry of a subdirectory resolves without waiting for the
\* recursive scanDir
scanResolved_detached(d, rd, es) ==
  \/ rd[d] = "err"
  \/ /\ rd[d] = "ok"
     /\ \A i \in 1..Len(Listing(d)) :
          es[PathJoin(d, Listing(d)[i])] \in {"skipped", "resolved", "scan"}

RECURSIVE scanResolved(_, _, _)
\* the promise returned by scanDir(d) is resolved
scanResolved(d, rd, es) ==
  \/ rd[d] = "err"
  \/ /\ rd[d] = "ok"
     /\ \A i \in 1..Len(Listing(d)) :
          LET readPath == PathJoin(d, Listing(d)[i]) IN
            \/ es[readPath] \in {"skipped", "resolved"}
            \/ es[readPath] = "scan" /\ scanResolved(readPath, rd, es)

BumpAll(c, keys) ==
  [k \in (DOMAIN c) \cup keys |-> Count(c, k) + (IF k \in keys THEN 1 ELSE 0)]

\* paths of the entries of a listed directory (sys.path.join(dir, dirItem))
ReadPaths(d) == { PathJoin(d, Listing(d)[i]) : i \in 1..Len(Listing(d)) }

\* variant: the transpile is requested without waiting for the scan
ScanStep_eager(rd, es, mf, dg, c, f) ==
  /\ readdirSt' = rd
  /\ entrySt' = es
  /\ moduleFiles' = mf
  /\ diagnostics' = dg
  /\ failed' = f
  /\ pc' = "transpile"
  /\ calls' = Bump(c, <<"transpile", << >> >>)
  /\ UNCHANGED <<config, manifest, includedSassFiles, filesToWrite, readSt,
                 returnedDiags, returned, resolvedWith>>

\* handler of scanDir(...).then(...): the batch transpile is requested as
\* soon as the promise of the root scan is resolved
ScanStep(rd, es, mf, dg, c, f) ==
  /\ readdirSt' = rd
  /\ entrySt' = es
  /\ moduleFiles' = mf
  /\ diagnostics' = dg
  /\ failed' = f
  /\ IF scanResolved(normalizePath(Src), rd, es)
     THEN pc' = "transpile" /\ calls' = Bump(c, <<"transpile", << >> >>)
     ELSE pc' = "scan" /\ calls' = c
  /\ UNCHANGED <<config, manifest, includedSassFiles, filesToWrite, readSt,
                 returnedDiags, returned, resolvedWith>>

\* variant: every referenced file is pushed, the indexOf test is missing
pushSassFiles_noDedup(list, files) == list \o files

\* includedSassFiles.push(f) unless indexOf(f) is not -1, for each f in order
RECURSIVE pushSassFiles(_, _)
pushSassFiles(list, files) ==
  IF files = << >> THEN list
  ELSE pushSassFiles(
         IF ArrayIndexOf(list, Head(files)) = -1 THEN Append(list, Head(files))
         ELSE list,
         Tail(files))

\* variant: the output is recorded whatever generateCollection says
writeJs_always(gen, ftw, unit) == Put(ftw, unit.jsFilePath, unit.jsText)

\* ctx.filesToWrite[jsFilePath] = jsText when a collection is generated
writeJs(gen, ftw, unit) ==
  IF gen THEN Put(ftw, unit.jsFilePath, unit.jsText) ELSE ftw

RECURSIVE mergeUnits(_, _, _)
\* the forEach over the keys of transpileResults.moduleFiles
mergeUnits(units, gen, acc) ==
  IF units = << >> THEN acc
  ELSE LET u == Head(units) IN
       mergeUnits(Tail(units), gen,
         [mf   |-> SetKey(acc.mf, u.tsFilePath, u),
          ftw  |-> writeJs(gen, acc.ftw, u),
          sass |-> pushSassFiles(acc.sass, u.includedSassFiles)])

RECURSIVE Pick(_, _, _)
Pick(seq, S, i) ==
  IF i > Len(seq) THEN << >>
  ELSE (IF i \in S THEN <<seq[i]>> ELSE << >>) \o Pick(seq, S, i + 1)

\* destination of a mirrored asset
sassDestPath(a) ==
  LET sassSrcPath == normalizePath(a)
      includeDir  == IndexOf(sassSrcPath, Src) = 0
  IN IF includeDir
     THEN normalizePath(PathJoin(CollectionDest, PathRelative(Src, sassSrcPath)))
     ELSE normalizePath(PathJoin(RootDir, PathRelative(RootDir, sassSrcPath)))

\* the last handler of the chain resolves the returned promise with
\* compileResults; the caller then sees ctx.filesToWrite as it is
Resolve ==
  resolvedWith' = IF pc # "done" /\ pc' = "done" THEN filesToWrite' ELSE resolvedWith

\* ------------------------------------------------------------------------
\* Initial state and the handlers
\* ------------------------------------------------------------------------
Init ==
  /\ exclude \in ExcludeChoices
  /\ generateCollection \in BOOLEAN
  /\ pc = "idle"
  /\ readdirSt = [d \in Dirs |-> "none"]
  /\ entrySt = [p \in Entries |-> "none"]
  /\ moduleFiles = << >>
  /\ diagnostics = << >>
  /\ manifest = << >>
  /\ includedSassFiles = << >>
  /\ filesToWrite = << >>
  /\ readSt = [a \in Assets |-> "none"]
  /\ calls = << >>
  /\ failed = {}
  /\ returnedDiags = 0
  /\ returned = << >>
  /\ resolvedWith = << >>
  /\ run = 1
  /\ firstRun = [keys |-> {}, sass |-> << >>]

\* compileSrcDir up to the first suspension: scanDir(buildConfig.src) lists
\* the normalised source root
compileSrcDir ==
  /\ pc = "idle"
  /\ pc' = "scan"
  /\ LET dir == normalizePath(Src) IN
       /\ readdirSt' = [readdirSt EXCEPT ![dir] = "pending"]
       /\ calls' = Bump(calls, <<"readdir", dir>>)
  /\ UNCHANGED <<config, entrySt, moduleFiles, diagnostics, manifest,
                 includedSassFiles, filesToWrite, readSt, failed, returnedDiags, returned,
                 resolvedWith>>

\* variant: the loop over the listing starts at the second name
entriesAfterReaddir_skipFirst(d, excl, es) ==
  [p \in Entries |->
     IF p \in ReadPaths(d) /\ p # PathJoin(d, Listing(d)[1])
     THEN (IF isValidDirectory(excl, p) THEN "stat" ELSE "skipped")
     ELSE es[p]]

\* the entries of a listed directory: excluded ones are dropped, a stat is
\* started for each of the others
entriesAfterReaddir(d, excl, es) ==
  [p \in Entries |->
     IF p \in ReadPaths(d)
     THEN (IF isValidDirectory(excl, p) THEN "stat" ELSE "skipped")
     ELSE es[p]]

\* callback of sys.fs.readdir(dir)
readdirCallback(d) ==
  /\ pc = "scan"
  /\ readdirSt[d] = "pending"
  /\ \E err \in BOOLEAN :
       /\ err => CanFail
       /\ IF err
          THEN ScanStep([readdirSt EXCEPT ![d] = "err"], entrySt, moduleFiles,
                        diagnostics, calls, failed \cup {Err("readdir", d)})
          ELSE LET es == entriesAfterReaddir(d, exclude, entrySt)
                   started == { <<"stat", p>> : p \in { q \in ReadPaths(d) : es[q] = "stat" } }
               IN ScanStep([readdirSt EXCEPT ![d] = "ok"], es, moduleFiles,
                           diagnostics, BumpAll(calls, started), failed)

\* variant: the failed stat is resolved without catchError
statFailure_silent(dg, p) == dg

\* diagnostics after a failed stat
statFailure(dg, p) == catchError(dg, Err("stat", p))

\* callback of sys.fs.stat(readPath)
statCallback(p) ==
  /\ pc = "scan"
  /\ entrySt[p] = "stat"
  /\ \E err \in BOOLEAN :
       /\ err => CanFail
       /\ IF err
          THEN ScanStep(readdirSt, [entrySt EXCEPT ![p] = "resolved"], moduleFiles,
                        statFailure(diagnostics, p), calls,
                        failed \cup {Err("stat", p)})
          ELSE IF isDirectory(p)
          THEN LET dir == normalizePath(p) IN
               ScanStep([readdirSt EXCEPT ![dir] = "pending"],
                        [entrySt EXCEPT ![p] = "scan"], moduleFiles, diagnostics,
                        Bump(calls, <<"readdir", dir>>), failed)
          ELSE IF isTsSourceFile(p)
          THEN ScanStep(readdirSt, [entrySt EXCEPT ![p] = "module"], moduleFiles,
                        diagnostics, Bump(calls, <<"getModuleFile", p>>), failed)
          ELSE ScanStep(readdirSt, [entrySt EXCEPT ![p] = "resolved"], moduleFiles,
                        diagnostics, calls, failed)

\* state of the entry promise after getModuleFile rejected: the rejection
\* has no handler, resolve() is never called
entryAfterRejection == "hung"

\* settlement of getModuleFile(buildConfig, ctx, readPath)
getModuleFileSettled(p) ==
  /\ pc = "scan"
  /\ entrySt[p] = "module"
  /\ \E err \in BOOLEAN :
       /\ err => CanFail
       /\ IF err
          THEN ScanStep(readdirSt, [entrySt EXCEPT ![p] = entryAfterRejection],
                        moduleFiles, diagnostics, calls,
                        failed \cup {Err("getModuleFile", p)})
          ELSE LET moduleFile == ScannedUnit(p) IN
               ScanStep(readdirSt, [entrySt EXCEPT ![p] = "resolved"],
                        SetKey(moduleFiles, moduleFile.tsFilePath, moduleFile),
                        diagnostics, calls, failed)

\* records returned in transpileResults.diagnostics
TranspileDiags(n) == [i \in 1..n |-> Err("diag", << >>)]

\* variant: the operands of the concat are swapped
concatDiagnostics_prepend(dg, more) == more \o dg

\* compileResults.diagnostics.concat(transpileResults.diagnostics)
concatDiagnostics(dg, more) == dg \o more

\* variant: the catch handler swallows the error
chainFailure_silent(dg, err) == dg

\* record pushed by the catch handler of the chain
chainFailure(dg, err) == catchError(dg, err)

\* settlement of transpile(buildConfig, ctx, compileResults.moduleFiles) and
\* the merge of its result into compileResults
transpileSettled ==
  /\ pc = "transpile"
  /\ \/ /\ CanFail
        /\ failed' = failed \cup {Err("transpile", << >>)}
        /\ diagnostics' = chainFailure(diagnostics, Err("transpile", << >>))
        /\ pc' = "done"
        /\ UNCHANGED <<moduleFiles, filesToWrite, includedSassFiles, returnedDiags,
                       returned>>
     \/ \E n \in 0..MaxTranspileDiags, defined \in BOOLEAN,
           S \in SUBSET (1..Len(moduleFiles)) :
          /\ defined \/ S = {}
          /\ LET requested == Pick(moduleFiles, S, 1)
                 units == [i \in 1..Len(requested) |-> TranspiledUnit(requested[i].key)]
                 acc == mergeUnits(IF defined THEN units ELSE << >>, generateCollection,
                          [mf |-> moduleFiles, ftw |-> filesToWrite,
                           sass |-> includedSassFiles])
             IN /\ diagnostics' = concatDiagnostics(diagnostics, TranspileDiags(n))
                /\ moduleFiles' = acc.mf
                /\ filesToWrite' = acc.ftw
                /\ includedSassFiles' = acc.sass
                /\ returnedDiags' = n
                /\ returned' = IF defined
                                THEN [i \in 1..Len(units) |-> units[i].tsFilePath]
                                ELSE << >>
                /\ pc' = "manifest"
                /\ UNCHANGED failed
  /\ UNCHANGED <<config, readdirSt, entrySt, manifest, readSt, calls>>
  /\ Resolve

\* manifest value built from the accumulated result
generateManifest(mf) == [i \in 1..Len(mf) |-> mf[i].key]

\* handler that sets compileResults.manifest
generateManifestStep ==
  /\ pc = "manifest"
  /\ calls' = Bump(calls, <<"generateManifest", << >> >>)
  /\ \E err \in BOOLEAN :
       /\ err => CanFail
       /\ IF err
          THEN /\ failed' = failed \cup {Err("generateManifest", << >>)}
               /\ diagnostics' = chainFailure(diagnostics, Err("generateManifest", << >>))
               /\ pc' = "done"
               /\ UNCHANGED manifest
          ELSE /\ manifest' = generateManifest(moduleFiles)
               /\ pc' = "copy"
               /\ UNCHANGED <<failed, diagnostics>>
  /\ UNCHANGED <<config, readdirSt, entrySt, moduleFiles, includedSassFiles,
                 filesToWrite, readSt, returnedDiags, returned>>
  /\ Resolve

\* variant: the generateCollection test is missing
assetsToRead_always(gen, list) == { list[i] : i \in 1..Len(list) }

\* the assets copySourceSassFilesToDest reads
assetsToRead(gen, list) ==
  IF ~ gen THEN {} ELSE { list[i] : i \in 1..Len(list) }

\* copySourceSassFilesToDest up to its suspension: nothing is read without
\* generateCollection, otherwise every included file is read
copySourceSassFilesToDest ==
  /\ pc = "copy"
  /\ LET toRead == assetsToRead(generateCollection, includedSassFiles) IN
       /\ readSt' = [a \in Assets |-> IF a \in toRead THEN "pending" ELSE readSt[a]]
       /\ calls' = BumpAll(calls, { <<"readFile", normalizePath(a)>> : a \in toRead })
       /\ pc' = IF toRead = {} THEN "done" ELSE "mirror"
  /\ UNCHANGED <<config, readdirSt, entrySt, moduleFiles, diagnostics, manifest,
                 includedSassFiles, filesToWrite, failed, returnedDiags,
                 returned>>
  /\ Resolve

\* position of the chain after a successful read: Promise.all resolves
\* when the last read has been written
pcAfterRead(cur, rs) ==
  IF cur = "mirror" /\ \A a \in Assets : rs[a] \in {"none", "ok"} THEN "done" ELSE cur

\* settlement of readFile(sys, sassSrcPath)
readFileSettled(a) ==
  /\ readSt[a] = "pending"
  /\ \E err \in BOOLEAN :
       /\ err => CanFail
       /\ IF err
          THEN /\ readSt' = [readSt EXCEPT ![a] = "err"]
               /\ failed' = failed \cup {Err("readFile", a)}
               /\ IF pc = "mirror"
                  THEN /\ diagnostics' = chainFailure(diagnostics, Err("readFile", a))
                       /\ pc' = "done"
                  ELSE UNCHANGED <<diagnostics, pc>>
               /\ UNCHANGED filesToWrite
          ELSE /\ readSt' = [readSt EXCEPT ![a] = "ok"]
               /\ filesToWrite' = Put(filesToWrite, sassDestPath(a), SassText(a))
               /\ pc' = pcAfterRead(pc, readSt')
               /\ UNCHANGED <<failed, diagnostics>>
  /\ UNCHANGED <<config, readdirSt, entrySt, moduleFiles, manifest,
                 includedSassFiles, calls, returnedDiags, returned>>
  /\ Resolve

\* none of the collaborators failed or reported a diagnostic and the
\* transpile returned a unit for every requested module
CleanRun ==
  /\ failed = {}
  /\ returnedDiags = 0
  /\ { returned[i] : i \in 1..Len(returned) } = Keys(moduleFiles)

\* the build is run again on the unchanged tree and configuration:
\* compileSrcDir starts from a fresh compileResults and a fresh context
rerun ==
  /\ run = 1
  /\ pc = "done"
  /\ \A a \in Assets : readSt[a] # "pending"
  /\ CleanRun
  /\ run' = 2
  /\ firstRun' = [keys |-> Keys(moduleFiles), sass |-> includedSassFiles]
  /\ pc' = "idle"
  /\ readdirSt' = [d \in Dirs |-> "none"]
  /\ entrySt' = [p \in Entries |-> "none"]
  /\ moduleFiles' = << >>
  /\ diagnostics' = << >>
  /\ manifest' = << >>
  /\ includedSassFiles' = << >>
  /\ filesToWrite' = << >>
  /\ readSt' = [a \in Assets |-> "none"]
  /\ calls' = << >>
  /\ failed' = {}
  /\ returnedDiags' = 0
  /\ returned' = << >>
  /\ resolvedWith' = << >>
  /\ UNCHANGED <<exclude, generateCollection>>

Next ==
  \/ compileSrcDir
  \/ \E d \in Dirs : readdirCallback(d)
  \/ \E p \in Entries : statCallback(p)
  \/ \E p \in Entries : getModuleFileSettled(p)
  \/ transpileSettled
  \/ generateManifestStep
  \/ copySourceSassFilesToDest
  \/ \E a \in Assets : readFileSettled(a)

Spec == Init /\ [][Next]_vars

NextRerun == Next \/ rerun

\* two consecutive runs on the same tree and configuration
SpecRerun == Init /\ [][NextRerun]_vars

\* ------------------------------------------------------------------------
\* Properties
\* ------------------------------------------------------------------------
Contains(hay, needle) ==
  \E i \in 1..(Len(hay) - Len(needle) + 1) : SubSeq(hay, i, i + Len(needle) - 1) = needle

AtOrBelow(q, p) ==
  q = p \/ (Len(q) > Len(p) /\ SubSeq(q, 1, Len(p) + 1) = p \o <<Sep>>)

MatchesExclusion(p) == \E k \in 1..Len(exclude) : Contains(p, exclude[k])

\* the compilable source files of the tree that no exclusion pattern removes
Compilable ==
  { p \in Entries : /\ ~ isDirectory(p)
                    /\ isTsSourceFile(p)
                    /\ \A q \in Entries : AtOrBelow(p, q) => ~ MatchesExclusion(q) }

FailedOf(kinds) == { f \in failed : f.kind \in kinds }

Occurrences(seq, v) == Cardinality({ i \in 1..Len(seq) : seq[i] = v })

Range(seq) == { seq[i] : i \in 1..Len(seq) }

Resolved == pc = "done"

\* no callback of the run is outstanding
Quiescent ==
  /\ pc \notin {"idle", "transpile", "manifest", "copy"}
  /\ \A d \in Dirs : readdirSt[d] # "pending"
  /\ \A p \in Entries : entrySt[p] \notin {"stat", "module"}
  /\ \A a \in Assets : readSt[a] # "pending"

\* C1: whatever the collaborators do, the promise returned by compileSrcDir
\* resolves: once no callback is outstanding the promise is resolved.
C1_AlwaysResolves == Quiescent => Resolved

\* C2: an entry whose joined path contains an exclusion pattern is never
\* statted or listed, nothing at or below it is requested, and no path at or
\* below it is a key of moduleFiles.
C2_ExcludedSubtreeSkipped ==
  \A p \in Entries : MatchesExclusion(p) =>
    \A q \in Entries : AtOrBelow(q, p) =>
      /\ Count(calls, <<"stat", q>>) = 0
      /\ Count(calls, <<"readdir", q>>) = 0
      /\ Count(calls, <<"getModuleFile", q>>) = 0
      /\ q \notin Keys(moduleFiles)

C2_Witness ==
  /\ Resolved
  /\ entrySt[DirXu] = "skipped"
  /\ entrySt[FileD] = "none"
  /\ FileA \in Keys(moduleFiles)

\* C3: when no readdir, stat, compile or copy call fails, the resolved
\* moduleFiles has exactly one key per non-excluded compilable source file.
C3_OneKeyPerCompilable ==
  (Resolved /\ FailedOf({"readdir", "stat", "getModuleFile", "transpile", "readFile"}) = {})
    => /\ Keys(moduleFiles) = Compilable
       /\ Len(moduleFiles) = Cardinality(Compilable)

C3_Witness ==
  /\ Resolved
  /\ failed = {}
  /\ Len(moduleFiles) = 4

\* C4: when the stat of exactly one entry fails, every compilable file that
\* is not at or below that entry is still in moduleFiles and diagnostics
\* holds exactly one record for the failed stat.
C4_OneStatFailureIsLocal ==
  \A e \in Entries :
    (Resolved /\ FailedOf({"stat"}) = {Err("stat", e)} /\ FailedOf({"readdir"}) = {})
      => /\ \A p \in Compilable : ~ AtOrBelow(p, e) => p \in Keys(moduleFiles)
         /\ Occurrences(diagnostics, Err("stat", e)) = 1

C4_Witness ==
  /\ Resolved
  /\ failed = {Err("stat", FileA)}
  /\ {FileB, FileC} \subseteq Keys(moduleFiles)
  /\ FileA \notin Keys(moduleFiles)

\* C5: when listing the source root fails, the build resolves with no
\* module and exactly one diagnostic for the failed listing.
C5_RootListingFailureRecorded ==
  (Resolved /\ failed = {Err("readdir", Src)})
    => /\ moduleFiles = << >>
       /\ Cardinality({ i \in 1..Len(diagnostics) : diagnostics[i].kind = "readdir" }) = 1

\* C6: when the request for exactly one compilable file fails, the run still
\* resolves, the failed path has no entry in moduleFiles, diagnostics holds a
\* record for it and every other compilable file has its entry.
C6_CompileFailureIsLocal ==
  \A p \in Entries :
    (Quiescent /\ failed = {Err("getModuleFile", p)})
      => /\ Resolved
         /\ p \notin Keys(moduleFiles)
         /\ Err("getModuleFile", p) \in Range(diagnostics)
         /\ \A q \in Compilable \ {p} : q \in Keys(moduleFiles)

AllReadsSettled == \A a \in Assets : readSt[a] # "pending"

\* C7: with generateCollection, when the read of exactly one asset fails and
\* all other reads succeed, the pending-write map seen at resolution has no
\* entry for the failed asset, has the entry of every other asset, and
\* diagnostics holds a record for the failed read.
C7_CopyFailureIsLocal ==
  \A a \in Assets :
    (Resolved /\ generateCollection /\ AllReadsSettled /\ failed = {Err("readFile", a)})
      => /\ Err("readFile", a) \in Range(diagnostics)
         /\ sassDestPath(a) \notin DOMAIN resolvedWith
         /\ \A b \in Range(includedSassFiles) \ {a} :
              /\ sassDestPath(b) \in DOMAIN resolvedWith
              /\ resolvedWith[sassDestPath(b)] = SassText(b)

\* the asset lies in the directory tree of the source root
InsideSrc(a) ==
  LET s == Segments(Src)
      t == Segments(a)
  IN Len(t) >= Len(s) /\ SubSeq(t, 1, Len(s)) = s

\* C8: a mirrored asset inside the source root is written under
\* collectionDest at its path relative to the source root, any other asset
\* (also one in a sibling directory named srcRoot+suffix) under rootDir at
\* its path relative to rootDir.
C8_MirrorDestination ==
  \A a \in Assets : readSt[a] = "ok" =>
    LET key == IF InsideSrc(a)
               THEN PathJoin(CollectionDest, PathRelative(Src, a))
               ELSE PathJoin(RootDir, PathRelative(RootDir, a))
    IN key \in DOMAIN filesToWrite /\ filesToWrite[key] = SassText(a)

\* the assets referenced by the units merged from the transpile result
ReferencedAssets ==
  UNION { Range(moduleFiles[i].unit.includedSassFiles) : i \in 1..Len(moduleFiles) }

\* C9: without generateCollection no asset is ever read and the
\* pending-write map never holds an asset entry, while includedSassFiles
\* still lists the assets the merged units reference.
C9_NoMirrorWithoutCollection ==
  ~ generateCollection =>
    /\ \A a \in Assets : Count(calls, <<"readFile", a>>) = 0 /\ readSt[a] = "none"
    /\ \A k \in DOMAIN filesToWrite : \A a \in Assets : filesToWrite[k] # SassText(a)
    /\ Range(includedSassFiles) = ReferencedAssets

C9_Witness ==
  /\ Resolved
  /\ ~ generateCollection
  /\ Len(includedSassFiles) = 3

\* C10: the resolved diagnostics list holds exactly one record per failure
\* and per diagnostic returned by the compilation.
C10_OneRecordPerFailure ==
  (Resolved /\ Quiescent)
    => Len(diagnostics) = Cardinality(FailedOf({"readdir", "stat"}))
                          + returnedDiags
                          + Cardinality(FailedOf({"readFile"}))
                          + Cardinality(FailedOf({"transpile", "generateManifest"}))

\* phase in which a diagnostic record originates
PhaseRank(d) ==
  CASE d.kind \in {"readdir", "stat", "getModuleFile"} -> 1
    [] d.kind \in {"diag", "transpile"} -> 2
    [] d.kind = "generateManifest" -> 3
    [] d.kind = "readFile" -> 4

\* C11: diagnostics is ordered by phase: records of the scan precede the
\* records contributed by the compilation, which precede the records of the
\* asset mirroring.
C11_DiagnosticsOrderedByPhase ==
  \A i, j \in 1..Len(diagnostics) :
    i < j => PhaseRank(diagnostics[i]) <= PhaseRank(diagnostics[j])

C11_Witness ==
  /\ Resolved
  /\ Len(diagnostics) = 3
  /\ diagnostics[1].kind = "stat"
  /\ diagnostics[2].kind = "diag"
  /\ diagnostics[3].kind = "readFile"

\* C12: a second run on the unchanged tree and configuration, with the same
\* collaborator results and any completion order of the callbacks, resolves
\* with the moduleFiles key set and the includedSassFiles sequence of the
\* first run.
C12_RerunIsDeterministic ==
  (run = 2 /\ Resolved /\ Quiescent /\ CleanRun)
    => /\ Keys(moduleFiles) = firstRun.keys
       /\ includedSassFiles = firstRun.sass

Below(q, d) == Len(q) > Len(d) /\ SubSeq(q, 1, Len(d) + 1) = d \o <<Sep>>

\* the promise of scanDir(d) is resolved; for the root this is what lets
\* the chain of compileSrcDir go on
ScanPromiseResolved(d) ==
  \/ d = Src /\ pc \notin {"idle", "scan"}
  \/ scanResolved(d, readdirSt, entrySt)

\* C13: when the promise of scanDir for a directory is resolved, every task
\* started at or below it has completed: no listing, stat or module lookup is
\* outstanding, every nested scan is resolved and every file a lookup was
\* started for is in moduleFiles.
C13_StructuredJoin ==
  \A d \in Dirs : ScanPromiseResolved(d) =>
    /\ readdirSt[d] \in {"ok", "err"}
    /\ \A q \in Entries : Below(q, d) =>
         /\ entrySt[q] \notin {"stat", "module", "hung"}
         /\ q \in Dirs => readdirSt[q] # "pending"
         /\ entrySt[q] = "scan" => scanResolved(q, readdirSt, entrySt)
         /\ Count(calls, <<"getModuleFile", q>>) > 0 => q \in Keys(moduleFiles)

C13_Witness ==
  /\ pc = "transpile"
  /\ entrySt[DirU] = "scan"
  /\ entrySt[DirXu] = "scan"
  /\ {FileA, FileB, FileC, FileD} \subseteq Keys(moduleFiles)
  /\ entrySt[FileN] = "resolved"

Transpiled(k) ==
  \E i \in 1..Len(moduleFiles) :
    moduleFiles[i].key = k /\ moduleFiles[i].unit.jsText # << >>

\* the manifest builder runs only on the merged result; assets are read
\* only once the manifest has been built
ManifestAfterMerge ==
  /\ Count(calls, <<"generateManifest", << >> >>) > 0 =>
       /\ pc \in {"copy", "mirror", "done"}
       /\ Count(calls, <<"transpile", << >> >>) = 1
       /\ Err("transpile", << >>) \notin failed
       /\ \A k \in Range(returned) : Transpiled(k)
  /\ (\E a \in Assets : Count(calls, <<"readFile", a>>) > 0) =>
       /\ Count(calls, <<"generateManifest", << >> >>) = 1
       /\ Err("generateManifest", << >>) \notin failed
       /\ manifest = generateManifest(moduleFiles)

ParentDir(q) ==
  CHOOSE d \in Dirs : Below(q, d) /\ \A e \in Dirs : Below(q, e) => Len(e) <= Len(d)

\* C15: no entry is statted twice and no file is requested twice; every
\* non-excluded entry of a listed directory has exactly one stat, and every
\* compilable file whose stat returned has exactly one per-file request.
C15_ExactlyOnce ==
  \A q \in Entries :
    /\ Count(calls, <<"stat", q>>) <= 1
    /\ Count(calls, <<"getModuleFile", q>>) <= 1
    /\ Count(calls, <<"readdir", q>>) <= 1
    /\ (readdirSt[ParentDir(q)] = "ok" /\ ~ MatchesExclusion(q))
         => Count(calls, <<"stat", q>>) = 1
    /\ (/\ Count(calls, <<"stat", q>>) = 1
        /\ entrySt[q] # "stat"
        /\ Err("stat", q) \notin failed
        /\ ~ isDirectory(q)
        /\ isTsSourceFile(q))
         => Count(calls, <<"getModuleFile", q>>) = 1
    /\ ~ (isTsSourceFile(q) /\ ~ isDirectory(q))
         => Count(calls, <<"getModuleFile", q>>) = 0

C15_Witness ==
  /\ pc = "transpile"
  /\ failed = {}
  /\ \A q \in Entries : Count(calls, <<"stat", q>>) = 1
  /\ \A q \in {FileA, FileB, FileC, FileD} : Count(calls, <<"getModuleFile", q>>) = 1

ChainKinds == {"transpile", "generateManifest", "readFile"}

\* the step in which the chain of compileSrcDir meets a fault
ChainFault(f) == pc # "done" /\ f \in failed' \ failed /\ f.kind \in ChainKinds

C17_ManifestSkippedWithoutSources ==
  (Resolved /\ moduleFiles = << >>) => Count(calls, <<"generateManifest", << >> >>) = 0

UnitOf(k) == (CHOOSE i \in 1..Len(moduleFiles) : moduleFiles[i].key = k)

RECURSIVE ReferencedInOrder(_)
\* the asset references of the merged units, in merge order
ReferencedInOrder(keys) ==
  IF keys = << >> THEN << >>
  ELSE moduleFiles[UnitOf(Head(keys))].unit.includedSassFiles
         \o ReferencedInOrder(Tail(keys))

FirstIndex(seq, v) == CHOOSE i \in 1..Len(seq) : seq[i] = v /\ \A j \in 1..(i - 1) : seq[j] # v

\* C18: includedSassFiles holds no path twice, holds exactly the assets
\* referenced by the units merged so far, and lists them in the order of
\* their first reference during the merge.
C18_SassFilesDedupInOrder ==
  LET refs == ReferencedInOrder(returned) IN
    /\ \A i, j \in 1..Len(includedSassFiles) :
         i # j => includedSassFiles[i] # includedSassFiles[j]
    /\ Range(includedSassFiles) = Range(refs)
    /\ \A i, j \in 1..Len(includedSassFiles) :
         i < j => FirstIndex(refs, includedSassFiles[i]) < FirstIndex(refs, includedSassFiles[j])

C18_Witness ==
  /\ pc = "manifest"
  /\ returned = <<FileB, FileA>>
  /\ includedSassFiles = <<SassSibling, SassOut, SassIn>>

\* C19: once the returned promise has resolved no task of the run is
\* outstanding and the pending-write map is the one the caller received.
C19_NoWorkAfterResolve ==
  Resolved => (Quiescent /\ filesToWrite = resolvedWith)

\* C20: a unit's output is recorded in the pending-write map exactly when
\* generateCollection is set: with the flag every unit the transpile
\* returned has jsFilePath -> jsText recorded, without it the map stays as it
\* was, and no other output is ever recorded.
C20_JsWrittenIffCollection ==
  /\ ~ generateCollection => filesToWrite = << >>
  /\ generateCollection =>
       \A k \in Range(returned) :
         LET u == moduleFiles[UnitOf(k)].unit IN
           /\ u.jsFilePath \in DOMAIN filesToWrite
           /\ filesToWrite[u.jsFilePath] = u.jsText
  /\ \A key \in DOMAIN filesToWrite :
       (\A a \in Assets : filesToWrite[key] # SassText(a))
         => \E k \in Range(returned) :
              moduleFiles[UnitOf(k)].unit.jsFilePath = key

C20_Witness ==
  /\ Resolved
  /\ generateCollection
  /\ Len(returned) = 3
  /\ Len(moduleFiles) = 4
  /\ Cardinality(DOMAIN filesToWrite) >= 3

====
